---- MODULE Spec2Model ----
(***************************************************************************)
(* A model of nerc_rates/models.py: the pydantic models RateValue,         *)
(* RateItem and Rates, their validators, and the lookup                    *)
(* Rates.get_value_at.                                                     *)
(*                                                                         *)
(* Encoding of Python values:                                              *)
(*   - a str that the code inspects character by character (a stored      *)
(*     value) is a sequence of one-character strings;                      *)
(*   - a datetime.date is [month, day], month a linear month index         *)
(*     (year*12 + month, shifted), compared lexicographically;             *)
(*   - None is NoneDate for a date, NoneType for a type tag and NoneT for  *)
(*     a datatype argument;                                                *)
(*   - an input date is a "YYYY-MM" token (kind "str"), a string that      *)
(*     strptime rejects (kind "badstr"), a datetime.date (kind "date") or  *)
(*     absent (kind "none").                                               *)
(***************************************************************************)
EXTENDS Integers, Sequences, FiniteSets, TLC

VARIABLES records, pc, root, errors, call, result, warned

vars == <<records, pc, root, errors, call, result, warned>>

\* ------------------------------------------------------------------ bounds
MaxMonth == 3
MaxDay == 2
MaxHist == 2
MaxRecords == 2

\* ------------------------------------------------------------------- dates
NoneDate == [month |-> 0, day |-> 0]

Date(m, k) == [month |-> m, day |-> k]

RawStr(m) == [kind |-> "str", month |-> m, day |-> 0]
RawDate(m, k) == [kind |-> "date", month |-> m, day |-> k]
RawBad == [kind |-> "badstr", month |-> 0, day |-> 0]
RawNone == [kind |-> "none", month |-> 0, day |-> 0]

\* datetime.date ordering
DateLE(a, b) == a.month < b.month \/ (a.month = b.month /\ a.day <= b.day)
DateLT(a, b) == a.month < b.month \/ (a.month = b.month /\ a.day < b.day)

\* strptime(v, "%Y-%m").date(): the first day of the month named by the token
strptime(v) ==
  IF v.kind = "str"
  THEN [ok |-> TRUE, date |-> Date(v.month, 1)]
  ELSE [ok |-> FALSE, date |-> NoneDate]

\* parse_date: a str goes through strptime, anything else is returned as it is
parse_date(v) ==
  IF v.kind \in {"str", "badstr"}
  THEN strptime(v)
  ELSE IF v.kind = "date"
       THEN [ok |-> TRUE, date |-> Date(v.month, v.day)]
       ELSE [ok |-> TRUE, date |-> NoneDate]

\* --------------------------------------------------------------- RateValue
Err(n, i, m) == [name |-> n, idx |-> i, msg |-> m]

\* mutant of validate_date_range: an interval that ends in the month it starts
\* is rejected too
validate_date_range_strict(from, until) == until # NoneDate /\ DateLE(until, from)

\* validate_date_range: the condition under which it raises
validate_date_range(from, until) == until # NoneDate /\ DateLT(until, from)

\* RateValue validation of one raw history entry: field validators first
\* (parse_date on "from" and on "until" when given), then, only if no field
\* failed, the model validator validate_date_range.
RateValue_validate(n, i, raw) ==
  LET f == parse_date(raw.from)
      u == IF raw.until.kind = "none"
           THEN [ok |-> TRUE, date |-> NoneDate]
           ELSE parse_date(raw.until)
      fieldErrs == (IF f.ok THEN {} ELSE {Err(n, i, "invalid date from")})
                   \cup (IF u.ok THEN {} ELSE {Err(n, i, "invalid date until")})
      obj == [value |-> raw.value, date_from |-> f.date, date_until |-> u.date]
  IN IF fieldErrs # {}
     THEN [errs |-> fieldErrs, obj |-> obj]
     ELSE IF validate_date_range(f.date, u.date)
          THEN [errs |-> {Err(n, i, "date_until must be after date_from")}, obj |-> obj]
          ELSE [errs |-> {}, obj |-> obj]

\* ---------------------------------------------------------------- RateItem
NoneType == "None"
RateType == {"str", "Decimal", "bool"}

\* validate_rate_type: the condition under which it raises
validate_rate_type(v) == v # NoneType /\ v \notin RateType

\* mutant of Overlaps: an interval that starts in the month another one ends
\* is not seen as overlapping it
Overlaps_strict(x, y) ==
  \/ /\ DateLE(y.date_from, x.date_from)
     /\ (y.date_until = NoneDate \/ DateLT(x.date_from, y.date_until))
  \/ /\ DateLE(x.date_from, y.date_from)
     /\ (x.date_until = NoneDate \/ DateLT(y.date_from, x.date_until))

\* the test of lines 65-71 on two validated RateValue objects
Overlaps(x, y) ==
  \/ /\ DateLE(y.date_from, x.date_from)
     /\ (y.date_until = NoneDate \/ DateLE(x.date_from, y.date_until))
  \/ /\ DateLE(x.date_from, y.date_from)
     /\ (x.date_until = NoneDate \/ DateLE(y.date_from, x.date_until))

\* validate_no_overlap: the two nested loops over data.history, x at index i
\* and y at index j, skipping x is y; the first overlapping pair raises.
\* The result is that pair, or <<0, 0>> when the loops run to the end.
RECURSIVE OverlapScan(_, _, _)
OverlapScan(h, i, j) ==
  IF i > Len(h) THEN <<0, 0>>
  ELSE IF j > Len(h) THEN OverlapScan(h, i + 1, 1)
  ELSE IF i # j /\ Overlaps(h[i], h[j]) THEN <<i, j>>
  ELSE OverlapScan(h, i, j + 1)

validate_no_overlap(h) == OverlapScan(h, 1, 1) # <<0, 0>>

\* RateItem validation of one raw record: the fields (type, each history
\* entry) are validated and their errors collected; validate_no_overlap runs
\* only when no field failed.
RateItem_validate(raw) ==
  LET n == raw.name
      vals == [i \in 1..Len(raw.history) |-> RateValue_validate(n, i, raw.history[i])]
      hist == [i \in 1..Len(raw.history) |-> vals[i].obj]
      fieldErrs == (IF validate_rate_type(raw.type)
                    THEN {Err(n, 0, "type must be one of")} ELSE {})
                   \cup UNION {vals[i].errs : i \in 1..Len(raw.history)}
      obj == [name |-> n, type |-> raw.type, history |-> hist]
  IN IF fieldErrs # {}
     THEN [errs |-> fieldErrs, obj |-> obj]
     ELSE IF validate_no_overlap(hist)
          THEN [errs |-> {Err(n, 0, "date ranges overlap")}, obj |-> obj]
          ELSE [errs |-> {}, obj |-> obj]

\* ------------------------------------------------------------------- Rates
\* dict lookup in a dict kept as the sequence of its entries in insertion
\* order: the index of the entry with key n, 0 when there is none
RECURSIVE Find(_, _, _)
Find(data, n, i) ==
  IF i > Len(data) THEN 0
  ELSE IF data[i].name = n THEN i
  ELSE Find(data, n, i + 1)

IndexOf(data, n) == Find(data, n, 1)

\* check_for_duplicates: the loop over items, from item k on, with the dict
\* built so far; raises at the first item whose name is already a key
RECURSIVE DupLoop(_, _, _)
DupLoop(items, k, data) ==
  IF k > Len(items) THEN [dup |-> FALSE, at |-> 0, data |-> data]
  ELSE IF IndexOf(data, items[k].name) # 0
       THEN [dup |-> TRUE, at |-> k, data |-> data]
       ELSE DupLoop(items, k + 1, Append(data, items[k]))

\* mutant of check_for_duplicates: a repeated name replaces the earlier record
RECURSIVE OverwriteLoop(_, _, _)
OverwriteLoop(items, k, data) ==
  IF k > Len(items) THEN [dup |-> FALSE, at |-> 0, data |-> data]
  ELSE IF IndexOf(data, items[k].name) # 0
       THEN OverwriteLoop(items, k + 1,
                          [data EXCEPT ![IndexOf(data, items[k].name)] = items[k]])
       ELSE OverwriteLoop(items, k + 1, Append(data, items[k]))

check_for_duplicates_overwrite(items) == OverwriteLoop(items, 1, << >>)

check_for_duplicates(items) == DupLoop(items, 1, << >>)

\* Rates validation: the BeforeValidator check_for_duplicates on the raw
\* list, then RateItem validation of every value of the dict it returns.
Rates_validate(items) ==
  LET c == check_for_duplicates(items)
      vs == [k \in 1..Len(c.data) |-> RateItem_validate(c.data[k])]
      errs == UNION {vs[k].errs : k \in 1..Len(c.data)}
  IN IF c.dup
     THEN [errs |-> {Err(items[c.at].name, c.at, "found duplicate name")},
           root |-> << >>]
     ELSE IF errs # {}
          THEN [errs |-> errs, root |-> << >>]
          ELSE [errs |-> {}, root |-> [k \in 1..Len(c.data) |-> vs[k].obj]]

\* ------------------------------------------------------------------ values
\* str.lower() on the characters that occur in stored values
LowerChar(c) ==
  CASE c = "T" -> "t"
    [] c = "R" -> "r"
    [] c = "U" -> "u"
    [] c = "E" -> "e"
    [] c = "F" -> "f"
    [] OTHER -> c

Lower(s) == [i \in 1..Len(s) |-> LowerChar(s[i])]

Digits == <<"0", "1", "2", "3", "4", "5", "6", "7", "8", "9">>

IsDigit(c) == \E k \in 1..Len(Digits) : Digits[k] = c

DigitVal(c) == (CHOOSE k \in 1..Len(Digits) : Digits[k] = c) - 1

\* the coefficient of a digit string with at most one ".", read left to right
RECURSIVE Coefficient(_, _, _)
Coefficient(s, i, acc) ==
  IF i > Len(s) THEN acc
  ELSE IF s[i] = "." THEN Coefficient(s, i + 1, acc)
  ELSE Coefficient(s, i + 1, acc * 10 + DigitVal(s[i]))

\* Decimal(s) for the plain notation digits[.digits]: the coefficient and the
\* exponent of the result, or ok = FALSE where Decimal raises InvalidOperation
DecimalOf(s) ==
  LET dots == {i \in 1..Len(s) : s[i] = "."}
      digs == {i \in 1..Len(s) : IsDigit(s[i])}
      numeric == /\ Cardinality(dots) <= 1
                 /\ digs # {}
                 /\ dots \cup digs = 1..Len(s)
  IN IF numeric
     THEN [ok |-> TRUE,
           coeff |-> Coefficient(s, 1, 0),
           exp |-> IF dots = {} THEN 0
                   ELSE (CHOOSE i \in dots : TRUE) - Len(s)]
     ELSE [ok |-> FALSE, coeff |-> 0, exp |-> 0]

\* ------------------------------------------------------------------ lookup
\* the datatype argument: None or a Python type object
NoneT == "None"
DataTypes == {NoneT, "type:str", "type:bool", "type:Decimal"}

\* {"str": str, "bool": bool, "Decimal": Decimal}.get(rate_item_obj.type)
expected_type_of(t) ==
  CASE t = "str" -> "type:str"
    [] t = "bool" -> "type:bool"
    [] t = "Decimal" -> "type:Decimal"
    [] OTHER -> NoneT

\* results of a call: what it returns or what it raises
NoResult == [kind |-> "none", str |-> << >>, bool |-> FALSE, coeff |-> 0, exp |-> 0, msg |-> ""]
RetStr(s) == [NoResult EXCEPT !.kind = "str", !.str = s]
RetBool(b) == [NoResult EXCEPT !.kind = "bool", !.bool = b]
RetDecimal(c, e) == [NoResult EXCEPT !.kind = "Decimal", !.coeff = c, !.exp = e]
Raise(k, m) == [NoResult EXCEPT !.kind = k, !.msg = m]

Raised(r) == r.kind \in {"ValueError", "TypeError", "AttributeError", "InvalidOperation"}

\* mutant of in_window: the upper bound of the window is exclusive
in_window_exclusive(item, d) ==
  /\ DateLE(item.date_from, d)
  /\ (item.date_until = NoneDate \/ DateLT(d, item.date_until))

\* line 100: item.date_from <= d <= (item.date_until or d)
in_window(item, d) ==
  /\ DateLE(item.date_from, d)
  /\ DateLE(d, IF item.date_until # NoneDate THEN item.date_until ELSE d)

\* the loop of _get_rate_item over rate_item.history from index i on: the
\* index of the first item whose window holds d, else 0
RECURSIVE HistoryScan(_, _, _)
HistoryScan(h, d, i) ==
  IF i > Len(h) THEN 0
  ELSE IF in_window(h[i], d) THEN i
  ELSE HistoryScan(h, d, i + 1)

\* Rates._get_rate_item: parse_date first, then self.root.get(name), then the
\* loop over its history (an attribute access on None when name is no key)
get_rate_item(rt, name, queried_date) ==
  LET p == parse_date(queried_date)
      k == IndexOf(rt, name)
      i == HistoryScan(rt[k].history, p.date, 1)
  IN IF ~p.ok THEN [exc |-> Raise("ValueError", "does not match format"), idx |-> 0]
     ELSE IF k = 0
          THEN [exc |-> Raise("AttributeError", "NoneType has no attribute history"), idx |-> 0]
          ELSE IF i # 0 THEN [exc |-> NoResult, idx |-> i]
               ELSE [exc |-> Raise("ValueError", "No value for"), idx |-> 0]

\* mutant of decode: the comparison with "true" and "1" is case-sensitive
decode_case_sensitive(value, expected_type) ==
  LET dec == DecimalOf(value)
  IN IF expected_type = "type:bool"
     THEN RetBool(value \in {<<"t", "r", "u", "e">>, <<"1">>})
     ELSE IF expected_type = "type:Decimal"
     THEN IF dec.ok THEN RetDecimal(dec.coeff, dec.exp)
          ELSE Raise("InvalidOperation", "ConversionSyntax")
     ELSE RetStr(value)

\* lines 122-127: the stored string decoded as the expected type
decode(value, expected_type) ==
  LET dec == DecimalOf(value)
  IN IF expected_type = "type:bool"
     THEN RetBool(Lower(value) \in {<<"t", "r", "u", "e">>, <<"1">>})
     ELSE IF expected_type = "type:Decimal"
     THEN IF dec.ok THEN RetDecimal(dec.coeff, dec.exp)
          ELSE Raise("InvalidOperation", "ConversionSyntax")
     ELSE RetStr(value)

\* mutant of typed_value: without a datatype the value is decoded as the
\* declared type
typed_value_coerce(type, value, datatype) ==
  LET expected_type == expected_type_of(type)
  IN IF datatype = NoneT
     THEN [res |-> decode(value, expected_type), warn |-> TRUE]
     ELSE IF datatype # expected_type
     THEN [res |-> Raise("TypeError", "expects datatype"), warn |-> FALSE]
     ELSE [res |-> decode(value, expected_type), warn |-> FALSE]

\* lines 108-127, the series declares a type: without a datatype the raw
\* string and a warning, with another datatype a TypeError, else the decoding
typed_value(type, value, datatype) ==
  LET expected_type == expected_type_of(type)
  IN IF datatype = NoneT
     THEN [res |-> RetStr(value), warn |-> TRUE]
     ELSE IF datatype # expected_type
     THEN [res |-> Raise("TypeError", "expects datatype"), warn |-> FALSE]
     ELSE [res |-> decode(value, expected_type), warn |-> FALSE]

\* mutant of untyped_value: a datatype given for an untyped series is ignored
untyped_value_lenient(type, value, datatype) ==
  [res |-> RetStr(value), warn |-> FALSE]

\* lines 128-131, the series declares no type
untyped_value(type, value, datatype) ==
  IF ~(datatype = NoneT /\ type = NoneType)
  THEN [res |-> Raise("TypeError", "does not define a type"), warn |-> FALSE]
  ELSE [res |-> RetStr(value), warn |-> FALSE]

\* Rates.get_value_at: the result and whether warnings.warn was called
get_value_at(rt, name, queried_date, datatype) ==
  LET k == IndexOf(rt, name)
      g == get_rate_item(rt, name, queried_date)
      obj == rt[k]
      value == obj.history[g.idx].value
  IN IF Raised(g.exc) THEN [res |-> g.exc, warn |-> FALSE]
     ELSE IF obj.type # NoneType
     THEN typed_value(obj.type, value, datatype)
     ELSE untyped_value(obj.type, value, datatype)

\* ------------------------------------------------------------------ inputs
Names == {"a", "b"}

\* stored values: "true", "True", "TRUE", "1", "1.0", "1.23", "yes", "False"
Values ==
  { <<"t", "r", "u", "e">>, <<"T", "r", "u", "e">>, <<"T", "R", "U", "E">>,
    <<"1">>, <<"1", ".", "0">>, <<"1", ".", "2", "3">>,
    <<"y", "e", "s">>, <<"F", "a", "l", "s", "e">> }

Months == 1..MaxMonth

QueryDates ==
  {RawStr(m) : m \in Months} \cup {RawBad}
    \cup {RawDate(m, k) : m \in Months, k \in 1..MaxDay}

Windows ==
  {[from |-> RawStr(f), until |-> u] :
     f \in Months, u \in {RawNone} \cup {RawStr(m) : m \in Months}}

\* a history of windows, the entry at position i holding the value "i"
HistoryOf(w) ==
  [i \in 1..Len(w) |->
     [value |-> <<Digits[i + 1]>>, from |-> w[i].from, until |-> w[i].until]]

\* one untyped series with every history of up to MaxHist windows
SeriesInputs ==
  {<<[name |-> "a", type |-> NoneType, history |-> HistoryOf(w)]>> :
     w \in UNION {[1..n -> Windows] : n \in 0..MaxHist}}

\* one series of one open-ended window that starts in the second month, with
\* every type tag and stored value
TypedInputs ==
  {<<[name |-> "a", type |-> t,
      history |-> <<[value |-> v, from |-> RawStr(2), until |-> RawNone]>>]>> :
     t \in RateType \cup {NoneType, "invalid_type"}, v \in Values}

\* lists of up to MaxRecords records over two names
TableItems ==
  {[name |-> n, type |-> t,
    history |-> <<[value |-> <<"1">>, from |-> RawStr(1), until |-> RawNone]>>] :
     n \in Names, t \in {NoneType, "bool"}}

TableInputs == UNION {[1..n -> TableItems] : n \in 0..MaxRecords}

Inputs == SeriesInputs \cup TypedInputs \cup TableInputs

\* ----------------------------------------------------------- state machine
NoCall == [name |-> "", date |-> RawNone, datatype |-> NoneT]

Init ==
  /\ records \in Inputs
  /\ pc = "input"
  /\ root = << >>
  /\ errors = {}
  /\ call = NoCall
  /\ result = NoResult
  /\ warned = FALSE

\* Rates(records): the table is built, or validation fails and there is none
Construct ==
  /\ pc = "input"
  /\ LET v == Rates_validate(records)
     IN /\ pc' = IF v.errs = {} THEN "built" ELSE "failed"
        /\ root' = v.root
        /\ errors' = v.errs
  /\ UNCHANGED <<records, call, result, warned>>

\* r.get_value_at(name, queried_date, datatype) on a built table
GetValueAt(name, queried_date, datatype) ==
  /\ pc = "built"
  /\ LET r == get_value_at(root, name, queried_date, datatype)
     IN /\ result' = r.res
        /\ warned' = r.warn
  /\ call' = [name |-> name, date |-> queried_date, datatype |-> datatype]
  /\ UNCHANGED <<records, pc, root, errors>>

Next ==
  \/ Construct
  \/ \E name \in Names, queried_date \in QueryDates, datatype \in DataTypes :
       GetValueAt(name, queried_date, datatype)

Spec == Init /\ [][Next]_vars

TypeOK ==
  /\ pc \in {"input", "built", "failed"}
  /\ warned \in BOOLEAN
  /\ (pc = "built") => errors = {}
  /\ (pc # "built") => Len(root) = 0

\* ============================================================== properties
\* What the properties say about a call, stated on the input and the built
\* table without the operators of the lookup.

Called == pc = "built" /\ call # NoCall

Known(n) == \E k \in 1..Len(root) : root[k].name = n

Item(n) == root[CHOOSE k \in 1..Len(root) : root[k].name = n]

\* the query names a month: a "YYYY-MM" token, or a date on a first day
MonthQuery == call.date.kind = "str" \/ (call.date.kind = "date" /\ call.date.day = 1)

\* the queried date as a date, for the two well-formed kinds of query
QueriedDate ==
  IF call.date.kind = "str" THEN Date(call.date.month, 1)
  ELSE Date(call.date.month, call.date.day)

WellFormedQuery == call.date.kind \in {"str", "date"}

\* month m lies in the inclusive window of interval iv (no until: open-ended)
MonthInWindow(iv, m) ==
  /\ iv.date_from.month <= m
  /\ (iv.date_until = NoneDate \/ m <= iv.date_until.month)

\* date d lies in the inclusive window of interval iv
DateInWindow(iv, d) ==
  /\ DateLE(iv.date_from, d)
  /\ (iv.date_until = NoneDate \/ DateLE(d, iv.date_until))

CoveringMonth(h, m) == {i \in 1..Len(h) : MonthInWindow(h[i], m)}
CoveringDate(h, d) == {i \in 1..Len(h) : DateInWindow(h[i], d)}

\* the call is for a known rate and a well-formed date inside some window
CoveredCall ==
  /\ Called /\ Known(call.name) /\ WellFormedQuery
  /\ CoveringDate(Item(call.name).history, QueriedDate) # {}

\* the stored value of the interval that covers the queried date
CoveredValue ==
  LET h == Item(call.name).history
  IN h[CHOOSE i \in CoveringDate(h, QueriedDate) : TRUE].value

NotFound(r) == r.kind = "ValueError" /\ r.msg \in {"No value for", "Rate not found"}

\* the type tag a datatype argument stands for
TagOf(datatype) ==
  CASE datatype = "type:str" -> "str"
    [] datatype = "type:bool" -> "bool"
    [] datatype = "type:Decimal" -> "Decimal"
    [] OTHER -> "other"

\* ---------------------------------------------------------------------- C1
\* C1: on a built table, for a known rate and a queried month d: if d lies in
\* the window of some interval, exactly one interval contains d and
\* get_value_at (called without a datatype, or with str on a str series)
\* returns that interval's stored value; if d lies in no window, get_value_at
\* raises the not-found ValueError, whatever the datatype.
C1_LookupByMonth ==
  (Called /\ Known(call.name) /\ MonthQuery) =>
    LET h == Item(call.name).history
        cover == CoveringMonth(h, call.date.month)
        raw == \/ call.datatype = NoneT
               \/ (Item(call.name).type = "str" /\ call.datatype = "type:str")
    IN IF cover = {}
       THEN result = Raise("ValueError", "No value for")
       ELSE /\ Cardinality(cover) = 1
            /\ raw => \A i \in cover : result = RetStr(h[i].value)

\* a two-interval history with an uncovered month between the windows, queried
\* in the second window: the second value is returned
C1_Witness ==
  /\ Called /\ Known(call.name) /\ MonthQuery /\ call.datatype = NoneT
  /\ LET h == Item(call.name).history
     IN /\ Len(h) = 2
        /\ h[1].date_until # NoneDate
        /\ h[1].date_until.month + 1 < h[2].date_from.month
        /\ CoveringMonth(h, call.date.month) = {2}
        /\ result = RetStr(h[2].value)

\* ---------------------------------------------------------------------- C2
\* the windows of two raw history entries overlap, as the claim defines it
RawOverlap(x, y) ==
  LET xu == IF x.until.kind = "none" THEN MaxMonth + 1 ELSE x.until.month
      yu == IF y.until.kind = "none" THEN MaxMonth + 1 ELSE y.until.month
  IN \/ (y.from.month <= x.from.month /\ x.from.month <= yu)
     \/ (x.from.month <= y.from.month /\ y.from.month <= xu)

RawValid(x) == x.until.kind = "none" \/ x.from.month <= x.until.month

HasOverlap(h) == \E i, j \in 1..Len(h) : i # j /\ RawOverlap(h[i], h[j])

OverlapError(n) == Err(n, 0, "date ranges overlap")

Orderings(n) == {f \in [1..n -> 1..n] : \A i, j \in 1..n : f[i] = f[j] => i = j}

\* C2: for a series whose intervals were all constructed, construction raises
\* the overlap error if and only if two distinct intervals of the history
\* overlap, and validate_no_overlap gives the same outcome for every ordering
\* of the history.
C2_OverlapRejected ==
  (pc # "input" /\ Len(records) = 1 /\ records[1].type \in RateType \cup {NoneType}
     /\ \A i \in 1..Len(records[1].history) : RawValid(records[1].history[i])) =>
    LET r == records[1]
        h == RateItem_validate(r).obj.history
    IN /\ (OverlapError(r.name) \in errors) <=> HasOverlap(r.history)
       /\ HasOverlap(r.history) => (pc = "failed" /\ Len(root) = 0)
       /\ ~HasOverlap(r.history) => pc = "built"
       /\ \A f \in Orderings(Len(h)) :
            validate_no_overlap([i \in 1..Len(h) |-> h[f[i]]]) = HasOverlap(r.history)

\* rejected for two windows that share only a boundary month
C2_Witness ==
  /\ pc = "failed" /\ Len(records) = 1
  /\ OverlapError(records[1].name) \in errors
  /\ LET h == records[1].history
     IN /\ Len(h) = 2
        /\ h[1].until.kind = "str" /\ h[1].from.month < h[1].until.month
        /\ h[2].from.month = h[1].until.month

\* ---------------------------------------------------------------------- C3
\* the positions of the input list whose name already occurred before them
Repeats == {j \in 1..Len(records) : \E i \in 1..(j - 1) : records[i].name = records[j].name}

FirstRepeat == CHOOSE j \in Repeats : \A k \in Repeats : j <= k

\* C3: when the input list holds two records of the same name, construction
\* fails with exactly the duplicate-name error, raised at the second
\* occurrence and naming the duplicate, and no table is produced; a built
\* table holds every input record unchanged in kind, under its own name.
C3_DuplicateNames ==
  /\ (pc # "input" /\ Repeats # {}) =>
       /\ pc = "failed"
       /\ Len(root) = 0
       /\ errors = {Err(records[FirstRepeat].name, FirstRepeat, "found duplicate name")}
  /\ pc = "built" =>
       /\ Repeats = {}
       /\ Len(root) = Len(records)
       /\ \A k \in 1..Len(records) :
            Known(records[k].name) /\ Item(records[k].name).type = records[k].type

\* two records of one name that differ in their type tag
C3_Witness ==
  /\ pc = "failed" /\ Len(records) = 2
  /\ records[1].name = records[2].name /\ records[1].type # records[2].type
  /\ Err(records[2].name, 2, "found duplicate name") \in errors

\* ---------------------------------------------------------------------- C8
RangeError(n, i) == Err(n, i, "date_until must be after date_from")

\* C8: constructing an interval raises the range error if and only if until
\* is present and until < from (until = from and no until are accepted), so
\* every interval of a built table has until >= from when until is present.
C8_DateRange ==
  /\ (pc # "input" /\ Repeats = {}) =>
       \A k \in 1..Len(records) : \A i \in 1..Len(records[k].history) :
         LET x == records[k].history[i]
         IN (RangeError(records[k].name, i) \in errors) <=>
              (x.until.kind # "none" /\ x.until.month < x.from.month)
  /\ pc = "built" =>
       \A k \in 1..Len(root) : \A i \in 1..Len(root[k].history) :
         LET v == root[k].history[i]
         IN v.date_until = NoneDate \/ DateLE(v.date_from, v.date_until)

\* a history with one interval that ends before it starts and one that ends
\* in the month it starts: only the first is reported
C8_Witness ==
  /\ pc = "failed" /\ Len(records) = 1 /\ Len(records[1].history) = 2
  /\ LET h == records[1].history
     IN /\ h[1].until.kind = "str" /\ h[1].until.month < h[1].from.month
        /\ h[2].until.kind = "str" /\ h[2].until.month = h[2].from.month
        /\ errors = {RangeError(records[1].name, 1)}

\* ---------------------------------------------------------------------- C4
\* C4: for a call whose date is covered: a datatype that is supplied and is
\* not the series' declared type raises TypeError and returns no value, also
\* when the series declares no type at all; with no declared type and no
\* datatype the raw stored string is returned.
C4_TypeMismatch ==
  CoveredCall =>
    LET type == Item(call.name).type
    IN /\ (call.datatype # NoneT /\ TagOf(call.datatype) # type) =>
            (result.kind = "TypeError" /\ ~warned)
       /\ (call.datatype # NoneT /\ type = NoneType) =>
            result = Raise("TypeError", "does not define a type")
       /\ (call.datatype = NoneT /\ type = NoneType) =>
            result = RetStr(CoveredValue)

\* a Decimal series asked for a bool
C4_Witness ==
  /\ CoveredCall
  /\ Item(call.name).type = "Decimal" /\ call.datatype = "type:bool"
  /\ result = Raise("TypeError", "expects datatype")

\* ---------------------------------------------------------------------- C5
\* C5: get_value_at with a name that is not in the table fails with the
\* not-found error, for every well-formed date and every datatype.
C5_UnknownNameNotFound ==
  (Called /\ WellFormedQuery /\ ~Known(call.name)) => NotFound(result)

UpperOf(c) ==
  CASE c = "t" -> "T" [] c = "r" -> "R" [] c = "u" -> "U" [] c = "e" -> "E"
    [] OTHER -> c

SameIgnoringCase(s, w) ==
  Len(s) = Len(w) /\ \A i \in 1..Len(w) : s[i] \in {w[i], UpperOf(w[i])}

Undecodable(type, value) ==
  \/ /\ type = "bool"
     /\ ~\E w \in {<<"t", "r", "u", "e">>, <<"f", "a", "l", "s", "e">>, <<"1">>, <<"0">>} :
           Lower(value) = w
  \/ /\ type = "Decimal"
     /\ ~DecimalOf(value).ok

\* C9: constructing a rate item fails whenever a stored value cannot be
\* decoded under the item's declared type, so no such item is in a table.
C9_UndecodableRejected ==
  (pc # "input") =>
    \A k \in 1..Len(records) : \A i \in 1..Len(records[k].history) :
      Undecodable(records[k].type, records[k].history[i].value) => pc = "failed"

\* --------------------------------------------------------------------- C10
\* C10: the date parser's result is a first day of a month for both input
\* forms, so a query given as a date anywhere inside a month is answered as
\* the query for that month is: when the month lies in an interval's window
\* (its last month included), the date matches that interval.
C10_MonthGranularity ==
  (/\ Called /\ Known(call.name) /\ call.date.kind = "date"
   /\ CoveringMonth(Item(call.name).history, call.date.month) # {}) =>
    /\ ~NotFound(result)
    /\ result = get_value_at(root, call.name, RawStr(call.date.month), call.datatype).res

====
